---- MODULE Spec2Model ----
(***************************************************************************)
(* A model of samcli/commands/check/lib/command_context.py: CheckContext   *)
(* (__init__, run, _transform_template, _read_sam_file) and the module     *)
(* function _parse_template.  One invocation of `sam check` constructs a   *)
(* CheckContext and calls run(); the model lets invocations follow one     *)
(* another over the same file system.  Every call to a collaborator is one *)
(* step; where the collaborator can fail, the step either returns or       *)
(* raises.                                                                 *)
(***************************************************************************)
EXTENDS Integers, Sequences, FiniteSets, TLC

VARIABLES
    fs,                   \* the file system: path -> file
    template_path,        \* self._template_path
    prev,                 \* records of the graph built by the latest earlier invocation
    pc,                   \* position inside run()
    trace,                \* calls made so far by this invocation, in order
    started,              \* stages of run() started so far, in order
    completed,            \* stages of run() that returned normally
    raised,               \* exceptions raised by collaborators in this invocation
    exception,            \* the exception run() ended with
    original_template,    \* locals of _transform_template
    updated_template,
    converted_template,   \* its return value (run() does not bind it)
    local_stacks,         \* locals of _parse_template
    functions,
    i,                    \* position of the for loop in functions
    all_lambda_functions,
    heap,                 \* the CheckGraph objects created by this invocation
    graph,                \* run()'s local `graph`: a reference into heap, 0 if unbound
    stage_graph,          \* the graph reference each downstream object was built with
    seen                  \* the annotations each downstream stage found on its graph

env    == <<fs, template_path, prev>>
hist   == <<trace, started, completed, raised, exception>>
tvars  == <<original_template, updated_template, converted_template>>
pvars  == <<local_stacks, functions, i, all_lambda_functions>>
gvars  == <<heap, graph, stage_graph, seen>>
vars   == <<env, pc, hist, tvars, pvars, gvars>>

----------------------------------------------------------------------------
(* Bounds *)

MaxDecls     == 3     \* resources declared in template.yaml, over all its stacks
MaxUserDecls == 1     \* resources declared in the other template file
MaxCauses    == 2     \* causes carried by an InvalidDocumentException

----------------------------------------------------------------------------
(* Templates, files, exceptions *)

AWS_LAMBDA_FUNCTION     == "AWS::Lambda::Function"
AWS_SERVERLESS_FUNCTION == "AWS::Serverless::Function"
AWS_DYNAMODB_TABLE      == "AWS::DynamoDB::Table"

FunctionTypes == {AWS_LAMBDA_FUNCTION, AWS_SERVERLESS_FUNCTION}

Declarable == { [name |-> "FnA",   type |-> AWS_SERVERLESS_FUNCTION],
                [name |-> "FnB",   type |-> AWS_LAMBDA_FUNCTION],
                [name |-> "Table", type |-> AWS_DYNAMODB_TABLE] }

\* Sequences of at most n declarations with pairwise distinct names (the
\* Resources section of a template is a mapping keyed by name).
RECURSIVE ResourceLists(_)
ResourceLists(n) ==
    IF n = 0 THEN { <<>> }
    ELSE LET shorter == ResourceLists(n - 1)
         IN  shorter \cup
             { Append(p[1], p[2]) :
                 p \in { q \in shorter \X Declarable :
                           \A k \in 1..Len(q[1]) : q[1][k].name # q[2].name } }

RootStack(r)  == [stack_path |-> "", resources |-> r]
ChildStack(r) == [stack_path |-> "ChildStack", resources |-> r]

\* The stack lists a template of at most n resources can stand for: the root
\* stack alone, or the root stack followed by one nested stack.
Templates(n) ==
    { <<RootStack(r)>> : r \in ResourceLists(n) } \cup
    { <<RootStack(p[1]), ChildStack(p[2])>> :
        p \in { q \in ResourceLists(n) \X ResourceLists(n) :
                  Len(q[1]) + Len(q[2]) <= n } }

UserTemplates == { <<RootStack(r)>> : r \in ResourceLists(MaxUserDecls) }

MissingFile   == [status |-> "missing",   stacks |-> <<>>]
MalformedFile == [status |-> "malformed", stacks |-> <<>>]
OkFile(t)     == [status |-> "ok",        stacks |-> t]

Paths == {"template.yaml", "app.yaml"}

NoTemplate == [stacks |-> <<>>, CodeUri |-> "unset"]

Messages == { <<"b", "a", "d">>, <<"m", " ", "R">>, <<>> }

RECURSIVE CauseLists(_)
CauseLists(n) ==
    IF n = 0 THEN { <<>> }
    ELSE LET shorter == CauseLists(n - 1)
         IN  shorter \cup { Append(s, [message |-> m]) : s \in shorter, m \in Messages }

Exc(type, message, origin) ==
    [type |-> type, message |-> message, origin |-> origin, causes |-> <<>>]

NoError == Exc("None", <<>>, "")

\* What the translation engine can raise for an invalid document.
InvalidDocumentExceptions ==
    { [type |-> "InvalidDocumentException", message |-> m,
       origin |-> "translate", causes |-> c] :
        m \in Messages, c \in CauseLists(MaxCauses) }

Stages == {"BottleNecks", "CheckPricing", "CheckCalculation", "CheckResults"}

----------------------------------------------------------------------------
(* Collaborators of _transform_template *)

\* yaml_parse: the mapping a readable file's text stands for.  Code locations
\* in a template on disk are local paths.
yaml_parse(file) == [stacks |-> file.stacks, CodeUri |-> "local"]

\* replace_local_codeuri: the template with its code locations rewritten.
replace_local_codeuri(template) == [template EXCEPT !.CodeUri = "rewritten"]

\* The engine's normal result: every serverless function becomes a plain
\* function resource.
NormalizeResource(r) ==
    IF r.type = AWS_SERVERLESS_FUNCTION THEN [r EXCEPT !.type = AWS_LAMBDA_FUNCTION] ELSE r

NormalizeStack(s) ==
    [s EXCEPT !.resources = [k \in 1..Len(s.resources) |-> NormalizeResource(s.resources[k])]]

translate(sam_template) ==
    [stacks  |-> [k \in 1..Len(sam_template.stacks) |-> NormalizeStack(sam_template.stacks[k])],
     CodeUri |-> sam_template.CodeUri]

\* str() of an exception is its message.
str(e) == e.message

\* A variant of the lambda that puts the cause before the message.
CombineReversed(message, error) == str(error) \o <<" ">> \o message

\* The lambda folded over e.causes: lambda message, error: message + " " + str(error)
Combine(message, error) == message \o <<" ">> \o str(error)

\* functools.reduce(Combine, causes, initial): a fold from the left.
RECURSIVE reduce(_, _)
reduce(causes, initial) ==
    IF causes = <<>> THEN initial
    ELSE reduce(Tail(causes), Combine(initial, Head(causes)))

\* A variant of the except clause that handles every exception.
CatchesEverything(e) == TRUE

\* The except clause of _transform_template: which exceptions it handles.
Catches(e) == e.type = "InvalidDocumentException"

InvalidSamDocumentException(e) ==
    Exc("InvalidSamDocumentException", reduce(e.causes, str(e)), "_transform_template")

----------------------------------------------------------------------------
(* Collaborators of _parse_template *)

\* A variant that builds the graph from the template the caller named.
PathOfCaller == template_path

\* os.path.realpath("template.yaml"): the fixed path the graph is built from.
TemplateYamlPath == "template.yaml"

\* SamLocalStackProvider.get_stacks(path)[0]: the stacks of the template.
get_stacks(file) == file.stacks

\* The function declarations of one stack, in declaration order.
RECURSIVE FunctionsOfStack(_, _)
FunctionsOfStack(stack, k) ==
    IF k > Len(stack.resources) THEN <<>>
    ELSE (IF stack.resources[k].type \in FunctionTypes
            THEN << [name |-> stack.resources[k].name, stack_path |-> stack.stack_path] >>
            ELSE <<>>)
         \o FunctionsOfStack(stack, k + 1)

\* SamFunctionProvider(stacks).get_all(): the functions of every stack, stack
\* by stack.
RECURSIVE get_all(_)
get_all(stacks) ==
    IF stacks = <<>> THEN <<>>
    ELSE FunctionsOfStack(Head(stacks), 1) \o get_all(Tail(stacks))

LambdaFunction(resource_object, resource_type, resource_name) ==
    [resource_object |-> resource_object,
     resource_type   |-> resource_type,
     resource_name   |-> resource_name]

\* A variant that names the record after the stack instead of the function.
WrapFunctionByPath(stack_function) ==
    LambdaFunction(stack_function, AWS_LAMBDA_FUNCTION, stack_function.stack_path)

\* The body of the for loop: the record built for one stack_function.
WrapFunction(stack_function) ==
    LambdaFunction(stack_function, AWS_LAMBDA_FUNCTION, stack_function.name)

\* CheckGraph(all_lambda_functions): a new graph object holding the records.
CheckGraph(lambda_functions) == [resources |-> lambda_functions, annotations |-> {}]

----------------------------------------------------------------------------
(* The state after CheckContext(region, profile, template_path) *)

NoPrev == [built |-> FALSE, template_path |-> "", nodes |-> <<>>]

Fresh ==
    /\ pc = "constructed"
    /\ trace = <<>> /\ started = <<>> /\ completed = {} /\ raised = <<>>
    /\ exception = NoError
    /\ original_template = NoTemplate
    /\ updated_template = NoTemplate
    /\ converted_template = NoTemplate
    /\ local_stacks = <<>> /\ functions = <<>> /\ i = 1
    /\ all_lambda_functions = <<>>
    /\ heap = <<>> /\ graph = 0
    /\ stage_graph = [s \in Stages |-> 0]
    /\ seen = [s \in Stages |-> {}]

Init ==
    /\ fs \in { [p \in Paths |-> IF p = "template.yaml" THEN f[1] ELSE f[2]] :
                  f \in ({MissingFile, MalformedFile}
                           \cup {OkFile(t) : t \in Templates(MaxDecls)})
                        \X
                        ({MissingFile, MalformedFile}
                           \cup {OkFile(t) : t \in UserTemplates}) }
    /\ template_path \in Paths
    /\ prev = NoPrev
    /\ Fresh

\* An exception leaves run(): nothing in run() handles it.
Propagate(e) ==
    /\ pc' = "failed"
    /\ exception' = e

Raise(e) ==
    /\ raised' = Append(raised, e)
    /\ Propagate(e)

----------------------------------------------------------------------------
(* CheckContext.run and CheckContext._transform_template *)

\* run() enters _transform_template.
run ==
    /\ pc = "constructed"
    /\ pc' = "managed_policy_map"
    /\ trace' = trace \o <<"run", "_transform_template">>
    /\ started' = Append(started, "_transform_template")
    /\ UNCHANGED <<env, completed, raised, exception, tvars, pvars, gvars>>

\* wrapper = SamTranslatorWrapper({}); wrapper.managed_policy_map()
managed_policy_map ==
    /\ pc = "managed_policy_map"
    /\ trace' = Append(trace, "managed_policy_map")
    /\ \/ /\ pc' = "_read_sam_file"
          /\ UNCHANGED <<raised, exception>>
       \/ Raise(Exc("Exception", <<>>, "managed_policy_map"))
    /\ UNCHANGED <<env, started, completed, tvars, pvars, gvars>>

\* A variant that opens the file without asking whether it exists.
_read_sam_file_unchecked ==
    /\ pc = "_read_sam_file"
    /\ LET file == fs[template_path] IN
         IF file.status = "missing"
         THEN /\ trace' = trace \o <<"_read_sam_file", "open">>
              /\ Raise(Exc("SamTemplateNotFoundException", <<>>, "_read_sam_file"))
              /\ UNCHANGED original_template
         ELSE IF file.status = "malformed"
         THEN /\ trace' = trace \o <<"_read_sam_file", "open", "yaml_parse">>
              /\ Raise(Exc("Exception", <<>>, "yaml_parse"))
              /\ UNCHANGED original_template
         ELSE /\ trace' = trace \o <<"_read_sam_file", "open", "yaml_parse">>
              /\ original_template' = yaml_parse(file)
              /\ pc' = "replace_local_codeuri"
              /\ UNCHANGED <<raised, exception>>
    /\ UNCHANGED <<env, started, completed, updated_template, converted_template,
                   pvars, gvars>>

\* original_template = self._read_sam_file()
_read_sam_file ==
    /\ pc = "_read_sam_file"
    /\ LET file == fs[template_path] IN
         IF file.status = "missing"
         THEN /\ trace' = trace \o <<"_read_sam_file", "os.path.exists">>
              /\ Raise(Exc("SamTemplateNotFoundException", <<>>, "_read_sam_file"))
              /\ UNCHANGED original_template
         ELSE IF file.status = "malformed"
         THEN /\ trace' = trace \o <<"_read_sam_file", "os.path.exists", "open", "yaml_parse">>
              /\ Raise(Exc("Exception", <<>>, "yaml_parse"))
              /\ UNCHANGED original_template
         ELSE /\ trace' = trace \o <<"_read_sam_file", "os.path.exists", "open", "yaml_parse">>
              /\ original_template' = yaml_parse(file)
              /\ pc' = "replace_local_codeuri"
              /\ UNCHANGED <<raised, exception>>
    /\ UNCHANGED <<env, started, completed, updated_template, converted_template,
                   pvars, gvars>>

\* updated_template = replace_local_codeuri(original_template)
call_replace_local_codeuri ==
    /\ pc = "replace_local_codeuri"
    /\ trace' = Append(trace, "replace_local_codeuri")
    /\ \/ /\ updated_template' = replace_local_codeuri(original_template)
          /\ pc' = "Translator"
          /\ UNCHANGED <<raised, exception>>
       \/ /\ Raise(Exc("Exception", <<>>, "replace_local_codeuri"))
          /\ UNCHANGED updated_template
    /\ UNCHANGED <<env, started, completed, original_template, converted_template,
                   pvars, gvars>>

\* sam_translator = Translator(..., boto_session=Session(profile_name, region_name))
Translator ==
    /\ pc = "Translator"
    /\ trace' = trace \o <<"Session", "Translator">>
    /\ \/ /\ pc' = "translate"
          /\ UNCHANGED <<raised, exception>>
       \/ Raise(Exc("Exception", <<>>, "Session"))
    /\ UNCHANGED <<env, started, completed, tvars, pvars, gvars>>

\* The try statement: sam_translator.translate(...), its except clause, and
\* the return of converted_template to run().
sam_translator_translate ==
    /\ pc = "translate"
    /\ trace' = Append(trace, "translate")
    /\ \/ /\ converted_template' = translate(updated_template)
          /\ completed' = completed \cup {"_transform_template"}
          /\ pc' = "get_stacks"
          /\ UNCHANGED <<raised, exception>>
       \/ /\ \E e \in InvalidDocumentExceptions \cup {Exc("Exception", <<"e">>, "translate")} :
               /\ raised' = Append(raised, e)
               /\ IF Catches(e)
                    THEN Propagate(InvalidSamDocumentException(e))
                    ELSE Propagate(e)
          /\ UNCHANGED <<converted_template, completed>>
    /\ UNCHANGED <<env, started, original_template, updated_template, pvars, gvars>>

----------------------------------------------------------------------------
(* _parse_template *)

\* run() enters _parse_template: path = os.path.realpath("template.yaml");
\* local_stacks = SamLocalStackProvider.get_stacks(path)[0]
call_get_stacks ==
    /\ pc = "get_stacks"
    /\ trace' = trace \o <<"_parse_template", "get_stacks">>
    /\ started' = Append(started, "_parse_template")
    /\ LET file == fs[TemplateYamlPath] IN
         IF file.status = "ok"
         THEN /\ local_stacks' = get_stacks(file)
              /\ pc' = "get_all"
              /\ UNCHANGED <<raised, exception>>
         ELSE /\ Raise(Exc("Exception", <<>>, "get_stacks"))
              /\ UNCHANGED local_stacks
    /\ UNCHANGED <<env, completed, tvars, functions, i, all_lambda_functions, gvars>>

\* function_provider = SamFunctionProvider(local_stacks);
\* functions = function_provider.get_all()
call_get_all ==
    /\ pc = "get_all"
    /\ trace' = trace \o <<"SamFunctionProvider", "get_all">>
    /\ \/ /\ functions' = get_all(local_stacks)
          /\ i' = 1
          /\ pc' = "for"
          /\ UNCHANGED <<raised, exception>>
       \/ /\ Raise(Exc("Exception", <<>>, "get_all"))
          /\ UNCHANGED <<functions, i>>
    /\ UNCHANGED <<env, started, completed, tvars, local_stacks,
                   all_lambda_functions, gvars>>

\* A variant of the loop body that appends each record twice.
for_stack_function_twice ==
    /\ pc = "for"
    /\ i <= Len(functions)
    /\ all_lambda_functions' =
         all_lambda_functions \o <<WrapFunction(functions[i]), WrapFunction(functions[i])>>
    /\ i' = i + 1
    /\ UNCHANGED <<env, pc, hist, tvars, local_stacks, functions, gvars>>

\* One iteration of `for stack_function in functions`.
for_stack_function ==
    /\ pc = "for"
    /\ i <= Len(functions)
    /\ all_lambda_functions' = Append(all_lambda_functions, WrapFunction(functions[i]))
    /\ i' = i + 1
    /\ UNCHANGED <<env, pc, hist, tvars, local_stacks, functions, gvars>>

\* A variant that builds the graph without the first record.
call_CheckGraph_dropping ==
    /\ pc = "for"
    /\ i > Len(functions)
    /\ trace' = Append(trace, "CheckGraph")
    /\ heap' = Append(heap, CheckGraph(IF all_lambda_functions = <<>> THEN <<>>
                                        ELSE Tail(all_lambda_functions)))
    /\ graph' = Len(heap) + 1
    /\ completed' = completed \cup {"_parse_template"}
    /\ pc' = "ask_entry_point_question"
    /\ UNCHANGED <<env, started, raised, exception, tvars, pvars, stage_graph, seen>>

\* graph = CheckGraph(all_lambda_functions); return graph
call_CheckGraph ==
    /\ pc = "for"
    /\ i > Len(functions)
    /\ trace' = Append(trace, "CheckGraph")
    /\ heap' = Append(heap, CheckGraph(all_lambda_functions))
    /\ graph' = Len(heap) + 1
    /\ completed' = completed \cup {"_parse_template"}
    /\ pc' = "ask_entry_point_question"
    /\ UNCHANGED <<env, started, raised, exception, tvars, pvars, stage_graph, seen>>

----------------------------------------------------------------------------
(* The downstream stages of run() *)

\* obj = class(g); obj.method(): the object is built with a reference to a
\* graph of heap h, reads the annotations on it, and either returns, having
\* added its own annotation or not, or raises.
StageCall(class, method, here, next, h, g, mayAnnotate) ==
    /\ pc = here
    /\ trace' = trace \o <<class, method>>
    /\ started' = Append(started, method)
    /\ stage_graph' = [stage_graph EXCEPT ![class] = g]
    /\ seen' = [seen EXCEPT ![class] = h[g].annotations]
    /\ \/ /\ \E writes \in (IF mayAnnotate THEN BOOLEAN ELSE {FALSE}) :
               heap' = IF writes
                         THEN [h EXCEPT ![g].annotations = @ \cup {class}]
                         ELSE h
          /\ completed' = completed \cup {method}
          /\ pc' = next
          /\ UNCHANGED <<raised, exception>>
       \/ /\ Raise(Exc("Exception", <<>>, method))
          /\ heap' = h
          /\ UNCHANGED completed
    /\ UNCHANGED <<env, tvars, pvars, graph>>

\* bottle_necks = BottleNecks(graph); bottle_necks.ask_entry_point_question()
ask_entry_point_question ==
    StageCall("BottleNecks", "ask_entry_point_question",
              "ask_entry_point_question", "ask_pricing_questions", heap, graph, TRUE)

\* A variant that asks the pricing questions before the entry point question.
ask_pricing_questions_first ==
    \/ StageCall("CheckPricing", "ask_pricing_questions",
                 "ask_entry_point_question", "ask_pricing_questions", heap, graph, TRUE)
    \/ StageCall("CheckPricing", "ask_pricing_questions",
                 "ask_pricing_questions", "run_bottle_neck_calculations", heap, graph, TRUE)

\* A variant that hands CheckPricing a copy of the graph.
ask_pricing_questions_on_copy ==
    StageCall("CheckPricing", "ask_pricing_questions",
              "ask_pricing_questions", "run_bottle_neck_calculations",
              Append(heap, CheckGraph(heap[graph].resources)), Len(heap) + 1, TRUE)

\* pricing = CheckPricing(graph); pricing.ask_pricing_questions()
ask_pricing_questions ==
    StageCall("CheckPricing", "ask_pricing_questions",
              "ask_pricing_questions", "run_bottle_neck_calculations", heap, graph, TRUE)

\* A variant that swallows a failure of the calculations and goes on to print.
run_bottle_neck_calculations_swallowing ==
    /\ pc = "run_bottle_neck_calculations"
    /\ trace' = trace \o <<"CheckCalculation", "run_bottle_neck_calculations">>
    /\ started' = Append(started, "run_bottle_neck_calculations")
    /\ stage_graph' = [stage_graph EXCEPT !["CheckCalculation"] = graph]
    /\ seen' = [seen EXCEPT !["CheckCalculation"] = heap[graph].annotations]
    /\ \/ /\ completed' = completed \cup {"run_bottle_neck_calculations"}
          /\ UNCHANGED raised
       \/ /\ raised' = Append(raised, Exc("Exception", <<>>, "run_bottle_neck_calculations"))
          /\ UNCHANGED completed
    /\ pc' = "print_bottle_neck_results"
    /\ UNCHANGED <<env, exception, tvars, pvars, heap, graph>>

\* calculations = CheckCalculation(graph); calculations.run_bottle_neck_calculations()
run_bottle_neck_calculations ==
    StageCall("CheckCalculation", "run_bottle_neck_calculations",
              "run_bottle_neck_calculations", "print_bottle_neck_results", heap, graph, TRUE)

\* results = CheckResults(graph); results.print_bottle_neck_results()
print_bottle_neck_results ==
    StageCall("CheckResults", "print_bottle_neck_results",
              "print_bottle_neck_results", "done", heap, graph, FALSE)

----------------------------------------------------------------------------
(* The next invocation: CheckContext.__init__ over the same file system *)

__init__ ==
    /\ pc \in {"done", "failed"}
    /\ template_path' \in Paths
    /\ prev' = IF graph # 0
                 THEN [built |-> TRUE, template_path |-> template_path,
                       nodes |-> heap[graph].resources]
                 ELSE prev
    /\ pc' = "constructed"
    /\ trace' = <<>> /\ started' = <<>> /\ completed' = {} /\ raised' = <<>>
    /\ exception' = NoError
    /\ original_template' = NoTemplate
    /\ updated_template' = NoTemplate
    /\ converted_template' = NoTemplate
    /\ local_stacks' = <<>> /\ functions' = <<>> /\ i' = 1
    /\ all_lambda_functions' = <<>>
    /\ heap' = <<>> /\ graph' = 0
    /\ stage_graph' = [s \in Stages |-> 0]
    /\ seen' = [s \in Stages |-> {}]
    /\ UNCHANGED fs

Next ==
    \/ run
    \/ managed_policy_map
    \/ _read_sam_file
    \/ call_replace_local_codeuri
    \/ Translator
    \/ sam_translator_translate
    \/ call_get_stacks
    \/ call_get_all
    \/ for_stack_function
    \/ call_CheckGraph
    \/ ask_entry_point_question
    \/ ask_pricing_questions
    \/ run_bottle_neck_calculations
    \/ print_bottle_neck_results
    \/ __init__

Spec == Init /\ [][Next]_vars

----------------------------------------------------------------------------
(* Vocabulary of the properties *)

StageOrder ==
    <<"_transform_template", "_parse_template", "ask_entry_point_question",
      "ask_pricing_questions", "run_bottle_neck_calculations",
      "print_bottle_neck_results">>

ClassOrder == <<"BottleNecks", "CheckPricing", "CheckCalculation", "CheckResults">>

IsPrefix(s, t) == Len(s) <= Len(t) /\ \A k \in 1..Len(s) : s[k] = t[k]

Called(name) == \E k \in 1..Len(trace) : trace[k] = name

\* The stage of run() a collaborator's exception comes out of.
StageOf(origin) ==
    IF origin \in {"managed_policy_map", "_read_sam_file", "yaml_parse",
                   "replace_local_codeuri", "Session", "translate"}
      THEN "_transform_template"
    ELSE IF origin \in {"get_stacks", "get_all"} THEN "_parse_template"
    ELSE origin

\* Every call run() makes after os.path.exists when nothing fails.
CallsAfterExistenceCheck ==
    {"open", "yaml_parse", "replace_local_codeuri", "Session", "Translator",
     "translate", "_parse_template", "get_stacks", "SamFunctionProvider", "get_all",
     "CheckGraph"}
    \cup Stages
    \cup { StageOrder[n] : n \in 2..Len(StageOrder) }

\* Length of m followed by the first k causes, each after one space.
RECURSIVE Offset(_, _, _)
Offset(m, causes, k) ==
    IF k = 0 THEN Len(m) ELSE Offset(m, causes, k - 1) + 1 + Len(causes[k].message)

\* r is m followed, for each cause in order, by one space and its message.
JoinedBySpaces(r, m, causes) ==
    /\ Len(r) = Offset(m, causes, Len(causes))
    /\ SubSeq(r, 1, Len(m)) = m
    /\ \A k \in 1..Len(causes) :
         /\ r[Offset(m, causes, k - 1) + 1] = " "
         /\ SubSeq(r, Offset(m, causes, k - 1) + 2, Offset(m, causes, k))
              = causes[k].message

\* Positions <<stack, resource>> of the function declarations of a stack list.
FunctionDecls(stacks) ==
    { d \in UNION { {<<s, k>> : k \in 1..Len(stacks[s].resources)} : s \in 1..Len(stacks) } :
        stacks[d[1]].resources[d[2]].type \in FunctionTypes }

\* Annotations present on any graph object of this invocation.
Wrote == UNION { heap[k].annotations : k \in 1..Len(heap) }

ClassIndex(c) == CHOOSE k \in 1..Len(ClassOrder) : ClassOrder[k] = c

----------------------------------------------------------------------------
(* Properties *)

\* C1: in every execution of run() the stages start in the order transform,
\* parse, entry point question, pricing questions, calculations, print, each
\* at most once, and a stage starts only after the stage before it returned
\* normally.
C1_StagesInOrder ==
    /\ IsPrefix(started, StageOrder)
    /\ \A k \in 2..Len(started) : StageOrder[k - 1] \in completed
    /\ \A k \in 1..Len(StageOrder) : StageOrder[k] \in completed => k <= Len(started)

C1_Witness == pc = "done" /\ started = StageOrder

\* C2: when a stage of run() fails, run() ends with that failure, the failed
\* stage is the last one ever started (no later stage, no second attempt),
\* and the results are printed only after the five earlier stages returned
\* normally.
C2_FailureAborts ==
    /\ raised # <<>> =>
         /\ pc = "failed"
         /\ Len(raised) = 1
         /\ exception # NoError
         /\ started # <<>>
         /\ started[Len(started)] = StageOf(raised[1].origin)
         /\ \A k \in 1..(Len(started) - 1) : started[k] # started[Len(started)]
    /\ pc = "failed" => raised # <<>>
    /\ Called("print_bottle_neck_results") =>
         \A k \in 1..5 : StageOrder[k] \in completed

C2_Witness ==
    /\ pc = "failed"
    /\ raised[1].origin = "run_bottle_neck_calculations"
    /\ Len(started) = 5

\* C3: when the engine raises InvalidDocumentException with message m and
\* causes c1..cn, run() ends with InvalidSamDocumentException whose message is
\* m followed, for each cause in order, by one space and the cause's message.
C3_MessageIsJoined ==
    \A k \in 1..Len(raised) :
        raised[k].type = "InvalidDocumentException" =>
            /\ exception.type = "InvalidSamDocumentException"
            /\ JoinedBySpaces(exception.message, raised[k].message, raised[k].causes)

C3_Witness ==
    /\ raised # <<>>
    /\ raised[1].type = "InvalidDocumentException"
    /\ raised[1].message = <<"b", "a", "d">>
    /\ Len(raised[1].causes) = 2
    /\ raised[1].causes[1].message = <<"m", " ", "R">>
    /\ raised[1].causes[2].message = <<"b", "a", "d">>
    /\ exception.message =
         <<"b", "a", "d", " ", "m", " ", "R", " ", "b", "a", "d">>

\* C4: when the caller's template path does not exist, _read_sam_file raises
\* SamTemplateNotFoundException without opening or parsing the file, and
\* run() ends with it: no rewrite, no translation, no _parse_template, no
\* downstream stage.
C4_MissingTemplate ==
    (fs[template_path].status = "missing" /\ Called("_read_sam_file")) =>
        /\ pc = "failed"
        /\ exception.type = "SamTemplateNotFoundException"
        /\ Called("os.path.exists")
        /\ \A k \in 1..Len(trace) :
             trace[k] \notin CallsAfterExistenceCheck
        /\ started = <<"_transform_template">>
        /\ graph = 0

C4_Witness ==
    /\ fs[template_path].status = "missing"
    /\ pc = "failed"
    /\ exception.type = "SamTemplateNotFoundException"

\* C5: the graph holds exactly as many records as the function provider
\* returned declarations, which is the number of function declarations of
\* template.yaml, and it is built from exactly the sequence the loop
\* collected; with no function declared the graph is built all the same, with
\* no node.
C5_CountsAgree ==
    /\ pc = "for" => Len(all_lambda_functions) = i - 1 /\ i - 1 <= Len(functions)
    /\ graph # 0 =>
         /\ Len(heap[graph].resources) = Len(functions)
         /\ Len(functions) = Cardinality(FunctionDecls(fs["template.yaml"].stacks))
         /\ heap[graph].resources = all_lambda_functions
    /\ (Called("get_all") /\ exception.origin # "get_all" /\ functions = <<>> /\ pc # "for") =>
         /\ graph # 0
         /\ heap[graph].resources = <<>>
         /\ StageOf(exception.origin) # "_parse_template"

C5_Witness ==
    /\ graph # 0
    /\ Len(functions) = 2
    /\ Len(heap[graph].resources) = 2
    /\ \E s \in 1..Len(fs["template.yaml"].stacks) :
         \E k \in 1..Len(fs["template.yaml"].stacks[s].resources) :
           fs["template.yaml"].stacks[s].resources[k].type = AWS_DYNAMODB_TABLE

\* C6: the record at position k of the wrapped sequence carries the tag
\* AWS_LAMBDA_FUNCTION, the k-th declaration of the provider's result itself
\* and that declaration's name, so the provider's order is kept.
C6_RecordsMatchDeclarations ==
    /\ \A k \in 1..Len(all_lambda_functions) :
         /\ k <= Len(functions)
         /\ all_lambda_functions[k].resource_type = "AWS::Lambda::Function"
         /\ all_lambda_functions[k].resource_object = functions[k]
         /\ all_lambda_functions[k].resource_name = functions[k].name
    /\ graph # 0 => heap[graph].resources = all_lambda_functions

C6_Witness ==
    /\ graph # 0
    /\ fs["template.yaml"].stacks =
         <<RootStack(<< [name |-> "FnA", type |-> AWS_SERVERLESS_FUNCTION],
                        [name |-> "FnB", type |-> AWS_LAMBDA_FUNCTION] >>)>>
    /\ Len(heap[graph].resources) = 2
    /\ heap[graph].resources[1].resource_name = "FnA"
    /\ heap[graph].resources[2].resource_name = "FnB"
    /\ heap[graph].resources[1].resource_object.stack_path
         = heap[graph].resources[2].resource_object.stack_path

\* C7: one invocation creates exactly one graph object, every downstream
\* object is built with a reference to it, and so each stage finds on its
\* graph every annotation an earlier stage wrote.
C7_OneSharedGraph ==
    /\ Len(heap) <= 1
    /\ graph # 0 => graph = 1 /\ Len(heap) = 1
    /\ \A c \in Stages :
         stage_graph[c] # 0 =>
            /\ graph # 0
            /\ stage_graph[c] = graph
            /\ \A b \in Stages :
                 (ClassIndex(b) < ClassIndex(c) /\ b \in Wrote) => b \in seen[c]

C7_Witness ==
    /\ pc = "done"
    /\ seen["CheckResults"] = {"BottleNecks", "CheckPricing", "CheckCalculation"}
    /\ seen["CheckPricing"] = {"BottleNecks"}

C9_OnlyInvalidDocumentIsConverted ==
    raised # <<>> =>
        /\ pc = "failed"
        /\ IF raised[1].type = "InvalidDocumentException" /\ raised[1].origin = "translate"
             THEN exception.type = "InvalidSamDocumentException"
             ELSE exception = raised[1]

C9_Witness ==
    /\ pc = "failed"
    /\ raised[1].origin = "translate"
    /\ raised[1].type = "Exception"
    /\ exception = raised[1]

\* C10: over an unchanged file system, two invocations that both build a
\* graph build the same sequence of records, whatever template path each was
\* given and whatever its transformation produced.
C10_GraphIgnoresCallerPath ==
    (graph # 0 /\ prev.built) => heap[graph].resources = prev.nodes

C10_Witness ==
    /\ graph # 0
    /\ prev.built
    /\ prev.template_path # template_path
    /\ fs["app.yaml"].status = "ok"
    /\ get_all(fs["app.yaml"].stacks) # get_all(fs["template.yaml"].stacks)
    /\ converted_template.stacks # fs["template.yaml"].stacks
    /\ heap[graph].resources # <<>>

====
